---- MODULE Spec2Model ----
(***************************************************************************)
(* State-machine model of comfyui_bfl_api_connect/__init__.py: main        *)
(* builds an ImageRequest from the command line, run_flux posts the job    *)
(* and polls get_result until a status other than Pending is decoded.      *)
(*                                                                         *)
(* Encoding of Python values:                                              *)
(*   None is <<>> and a value v of an optional type is <<v>>;              *)
(*   a dict is a function from its keys to its values, so a key that is    *)
(*   not set is not in DOMAIN (this differs from a key set to null);       *)
(*   floats are held in hundredths, durations in milliseconds.             *)
(***************************************************************************)
EXTENDS Integers, Sequences, FiniteSets, TLC

VARIABLES
    pc,               \* position of the process: main, run_flux, sleep, fetch, returned, failed
    args,             \* vars(args): the parsed command line
    image_request,    \* the ImageRequest built by main, None before
    errors,           \* fields listed in the pydantic error of ImageRequest
    posts,            \* httpx.post calls issued so far
    gets,             \* httpx.get calls issued so far
    served,           \* the HTTP responses received so far, in order
    job_id,           \* run_flux's job_id, None before line 85
    n,                \* run_flux's backoff counter, None before line 87
    sleeps,           \* number of time.sleep calls
    waited,           \* argument of the last time.sleep, in ms
    result_response,  \* the last ResultResponse decoded, None before
    opened,           \* URLs handed to webbrowser.open
    raised,           \* the exception that ended the run, "none" otherwise
    printed,          \* the last line printed
    printed_result,   \* <<result>> when the last line printed shows the result, <<>> otherwise
    return_value      \* what run_flux returned to main, "unset" before it returns

vars == <<pc, args, image_request, errors, posts, gets, served, job_id, n,
          sleeps, waited, result_response, opened, raised, printed,
          printed_result, return_value>>

None == <<>>
Some(v) == <<v>>

----------------------------------------------------------------------------
(* Bounds of the model *)

\* polling is cut after this many get_result calls
MaxFetch == 3
\* integer kwargs probed for width and height: -2 .. MaxProbe
MaxProbe == 1500
\* guidance values probed, in hundredths: 0 .. MaxGuidanceProbe
MaxGuidanceProbe == 600
\* seed, safety_tolerance and interval probed: -2 .. MaxSmallProbe
MaxSmallProbe == 8

----------------------------------------------------------------------------
(* Enumerations and field constraints *)

\* class ImageVariant(str, Enum): member name |-> value
ImageVariant == [dev |-> "flux-dev", pro |-> "flux-pro", proplus |-> "flux-pro-1.1"]

\* class StatusResponse(str, Enum): the values
StatusResponse ==
    {"Task not found", "Pending", "Request Moderated", "Content Moderated",
     "Ready", "Error"}

width_ge == 256
width_le == 1440
width_multiple_of == 32
height_ge == 256
height_le == 1440
height_multiple_of == 32
guidance_ge == 150
guidance_le == 500
safety_tolerance_ge == 0
safety_tolerance_le == 6
interval_ge == 1
interval_le == 4

\* as ModelFields, variant declared as a field of ImageRequest
ModelFields_with_variant ==
    {"prompt", "width", "height", "variant", "steps", "prompt_upsampling", "seed",
     "guidance", "safety_tolerance", "interval"}

\* as ModelFields, api_key declared as a field of ImageRequest
ModelFields_with_api_key ==
    {"api_key", "prompt", "width", "height", "steps", "prompt_upsampling", "seed",
     "guidance", "safety_tolerance", "interval"}

\* the fields declared by class ImageRequest
ModelFields ==
    {"prompt", "width", "height", "steps", "prompt_upsampling", "seed",
     "guidance", "safety_tolerance", "interval"}

\* as FieldConstraint, the multiple_of constraint left out
FieldConstraint_no_multiple(v, ge, le, multiple_of) == v >= ge /\ v <= le

\* Field(..., ge=, le=, multiple_of=) on a value
FieldConstraint(v, ge, le, multiple_of) ==
    v >= ge /\ v <= le /\ v % multiple_of = 0

\* a constraint on T | None applies to values other than None
OptionalConstraint(o, ge, le) ==
    o = None \/ FieldConstraint(o[1], ge, le, 1)

\* as NonNegativeOptional, seed typed int | None
NonNegativeOptional_any_int(o) == TRUE

\* NonNegativeInt | None
NonNegativeOptional(o) == o = None \/ o[1] >= 0

\* does the value given for field f pass the validation of ImageRequest
FieldValid(f, kw) ==
    CASE f = "width" -> FieldConstraint(kw.width, width_ge, width_le, width_multiple_of)
      [] f = "height" -> FieldConstraint(kw.height, height_ge, height_le, height_multiple_of)
      [] f = "seed" -> NonNegativeOptional(kw.seed)
      [] f = "guidance" -> OptionalConstraint(kw.guidance, guidance_ge, guidance_le)
      [] f = "safety_tolerance" ->
            OptionalConstraint(kw.safety_tolerance, safety_tolerance_ge, safety_tolerance_le)
      [] f = "interval" -> OptionalConstraint(kw.interval, interval_ge, interval_le)
      [] OTHER -> TRUE

\* the fields pydantic reports when ImageRequest(**kw) is constructed
ImageRequestErrors(kw) == {f \in ModelFields : ~FieldValid(f, kw)}

\* ImageRequest(**kw): keyword arguments that are no field are ignored
ImageRequest(kw) == [f \in ModelFields |-> kw[f]]

\* BaseModel.model_dump(): the dict of field name to value
model_dump(req) == [f \in DOMAIN req |-> req[f]]

----------------------------------------------------------------------------
(* HTTP *)

ApiBase == "https://api.bfl.ml/v1"

\* f"https://api.bfl.ml/v1/{str(variant.value)}"
bfl_url(variant) == [base |-> ApiBase, path |-> ImageVariant[variant]]

get_result_url == [base |-> ApiBase, path |-> "get_result"]

\* as is_success, raising on 4xx and 5xx only
is_success_below_400(status_code) == status_code < 400

\* httpx.Response.raise_for_status raises unless the code is 2xx
is_success(status_code) == status_code >= 200 /\ status_code <= 299

\* dict.get(key)
dict_get(d, key) == IF key \in DOMAIN d THEN d[key] ELSE None

\* AsyncResponse(**json): id is required
AsyncResponseValid(json) == "id" \in DOMAIN json

\* ResultResponse(**json): id, status and result are required (result may be
\* None), and status must be the value of a StatusResponse member
ResultResponseValid(json) ==
    /\ "id" \in DOMAIN json
    /\ "status" \in DOMAIN json
    /\ json["status"] \in StatusResponse
    /\ "result" \in DOMAIN json

ResultResponse(json) ==
    [id |-> json["id"], status |-> json["status"], result |-> json["result"]]

----------------------------------------------------------------------------
(* What the environment may supply *)

ApiKeys == {"key1", "key2"}
JobIds == {"abc", "xyz"}
Urls == {"http://x/img.png", "http://y/img.png"}
StatusCodes == {200, 302, 404, 500}
WireStatuses == StatusResponse \cup {"Queued"}

DefaultArgs ==
    [api_key |-> "key1", prompt |-> "ein fantastisches bild", width |-> 1024,
     height |-> 1024, variant |-> "proplus", steps |-> None,
     prompt_upsampling |-> FALSE, seed |-> None, guidance |-> None,
     safety_tolerance |-> Some(2), interval |-> None]

\* command lines of the runs explored
RunArgs ==
    {[DefaultArgs EXCEPT !.api_key = k, !.variant = v, !.width = w, !.height = h,
                         !.seed = s, !.guidance = g, !.safety_tolerance = t,
                         !.interval = i] :
        k \in ApiKeys, v \in DOMAIN ImageVariant, w \in {224, 1024, 1040, 1440},
        h \in {1024, 1472}, s \in {None, Some(-1)}, g \in {None, Some(510)},
        t \in {Some(2), Some(7)}, i \in {None, Some(5)}}

\* keyword arguments probed against the validation, one field at a time
ProbeArgs ==
    {[DefaultArgs EXCEPT !.width = w] : w \in -2 .. MaxProbe}
    \cup {[DefaultArgs EXCEPT !.height = h] : h \in -2 .. MaxProbe}
    \cup {[DefaultArgs EXCEPT !.guidance = Some(g)] : g \in 0 .. MaxGuidanceProbe}
    \cup {[DefaultArgs EXCEPT !.seed = Some(s)] : s \in -2 .. MaxSmallProbe}
    \cup {[DefaultArgs EXCEPT !.safety_tolerance = Some(t)] : t \in -2 .. MaxSmallProbe}
    \cup {[DefaultArgs EXCEPT !.interval = Some(i)] : i \in -2 .. MaxSmallProbe}
    \cup {[DefaultArgs EXCEPT !.safety_tolerance = None]}

EmptyDict == [k \in {} |-> None]

\* result payloads: {}, {"sample": null}, {"sample": u}
Dicts == {EmptyDict, [sample |-> None]} \cup {[sample |-> Some(u)] : u \in Urls}

\* bodies answering the POST
SubmitBodies == {[id |-> j] : j \in JobIds} \cup {EmptyDict}

\* bodies answering GET get_result: every status with every shape of result
\* (key absent, null, a dict), a few with another id, one without id
FetchBodies ==
    {[id |-> "abc", status |-> s] : s \in WireStatuses}
    \cup {[id |-> "abc", status |-> s, result |-> None] : s \in WireStatuses}
    \cup {[id |-> "abc", status |-> s, result |-> Some(d)] : s \in WireStatuses, d \in Dicts}
    \cup {[id |-> "xyz", status |-> "Pending", result |-> None],
          [id |-> "xyz", status |-> "Ready", result |-> Some([sample |-> Some("http://x/img.png")])],
          [status |-> "Pending", result |-> None]}

SubmitResponses == [status_code : StatusCodes, json : SubmitBodies]

FetchResponses ==
    [status_code : {200}, json : FetchBodies]
    \cup [status_code : StatusCodes \ {200}, json : {[id |-> "abc", status |-> "Pending", result |-> None],
                                                     [id |-> "abc", status |-> "Ready", result |-> Some([sample |-> Some("http://x/img.png")])],
                                                     EmptyDict}]

----------------------------------------------------------------------------
(* Backoff *)

backoff_base_ms == 500
jitter_max_ms == 1000

\* random.randint(0, 1000): the values explored
Jitters == {0, jitter_max_ms \div 2, jitter_max_ms}

\* 0.5 * (2**n) + (random.randint(0, 1000) / 1000), in ms
backoff(k, jitter) == backoff_base_ms * (2 ^ k) + jitter

\* n = 1
initial_n == 1

\* as next_n, the counter incremented at the end of the loop body
next_n_incremented(k) == k + 1

\* the loop body leaves n alone
next_n(k) == k

----------------------------------------------------------------------------
(* The match statement of the poll loop.  Each case yields what the loop
   does next (loop, return, raise), the exception raised, the URLs handed to
   webbrowser.open and the line printed. *)

Outcome(next, exc, open, line) ==
    [next |-> next, raised |-> exc, open |-> open, printed |-> line]

\* as case_Ready, without assert sample_url is not None
case_Ready_unchecked(rr) ==
    IF rr.result = None
    THEN Outcome("raise", "AssertionError:result", <<>>, "Result ready:")
    ELSE Outcome("return", "none", dict_get(rr.result[1], "sample"), "Result ready:")

\* case StatusResponse.Ready
case_Ready(rr) ==
    IF rr.result = None
    THEN Outcome("raise", "AssertionError:result", <<>>, "Result ready:")
    ELSE LET sample_url == dict_get(rr.result[1], "sample") IN
         IF sample_url = None
         THEN Outcome("raise", "AssertionError:sample_url", <<>>, "Result ready:")
         ELSE Outcome("return", "none", <<sample_url[1]>>, "Result ready:")

\* as case_Error, the return left out
case_Error_no_return(rr) == Outcome("loop", "none", <<>>, "Error:")

\* case StatusResponse.Error
case_Error(rr) == Outcome("return", "none", <<>>, "Error:")

\* as case_Pending, giving up instead of polling again
case_Pending_gives_up(rr) == Outcome("return", "none", <<>>, "Job still pending ...")

\* case StatusResponse.Pending
case_Pending(rr) == Outcome("loop", "none", <<>>, "Job still pending ...")

\* case StatusResponse.RequestModerated
case_RequestModerated(rr) == Outcome("return", "none", <<>>, "Request moderated ...")

\* as case_ContentModerated, the return left out
case_ContentModerated_no_return(rr) ==
    Outcome("loop", "none", <<>>, "Content moderated ...")

\* case StatusResponse.ContentModerated
case_ContentModerated(rr) == Outcome("return", "none", <<>>, "Content moderated ...")

\* as case_TaskNotFound, printing the line of the case above it
case_TaskNotFound_wrong_line(rr) ==
    Outcome("return", "none", <<>>, "Content moderated ...")

\* case StatusResponse.TaskNotFound
case_TaskNotFound(rr) == Outcome("return", "none", <<>>, "Task not found ...")

\* case _
case_default(rr) == Outcome("raise", "ValueError:Unknown status", <<>>, "Fetching status of job")

match_status(rr) ==
    CASE rr.status = "Ready" -> case_Ready(rr)
      [] rr.status = "Error" -> case_Error(rr)
      [] rr.status = "Pending" -> case_Pending(rr)
      [] rr.status = "Request Moderated" -> case_RequestModerated(rr)
      [] rr.status = "Content Moderated" -> case_ContentModerated(rr)
      [] rr.status = "Task not found" -> case_TaskNotFound(rr)
      [] OTHER -> case_default(rr)

\* the bare return statements of run_flux (-> None)
run_flux_returns(rr) == "None"

\* the result shown by print(f"Result ready:\n{...}") and print(f"Error: {...}")
printed_payload(rr) ==
    IF rr.status \in {"Ready", "Error"} THEN <<rr.result>> ELSE <<>>

\* as get_params, the id taken from the last response decoded
get_params_of_last_response(jid) ==
    [id |-> IF result_response = None THEN jid ELSE result_response[1].id]

\* params={"id": job_id}
get_params(jid) == [id |-> jid]

\* x-key header of both calls
headers(api_key) == [h \in {"x-key"} |-> api_key]

\* as fetch_outcome, an HTTP error of the GET answered by polling again
fetch_outcome_retrying(r) ==
    IF ~is_success(r.status_code)
    THEN Outcome("loop", "none", <<>>, "Fetching status of job")
    ELSE IF ~ResultResponseValid(r.json)
    THEN Outcome("raise", "ValidationError:ResultResponse", <<>>, "Fetching status of job")
    ELSE match_status(ResultResponse(r.json))

\* the loop iteration from the response on: raise_for_status, decoding, match
fetch_outcome(r) ==
    IF ~is_success(r.status_code)
    THEN Outcome("raise", "HTTPStatusError:get", <<>>, "Fetching status of job")
    ELSE IF ~ResultResponseValid(r.json)
    THEN Outcome("raise", "ValidationError:ResultResponse", <<>>, "Fetching status of job")
    ELSE match_status(ResultResponse(r.json))

----------------------------------------------------------------------------
(* Actions *)

\* main: image_request_input = ImageRequest(**vars(args)), then run_flux is called
Main ==
    /\ pc = "main"
    /\ errors' = ImageRequestErrors(args)
    /\ IF errors' = {}
       THEN /\ image_request' = Some(ImageRequest(args))
            /\ pc' = "run_flux"
            /\ raised' = "none"
       ELSE /\ image_request' = None
            /\ pc' = "failed"
            /\ raised' = "ValidationError:ImageRequest"
    /\ UNCHANGED <<args, posts, gets, served, job_id, n, sleeps, waited,
                   result_response, opened, printed, printed_result, return_value>>

\* run_flux up to the loop: the POST, raise_for_status, AsyncResponse, n = 1
Post ==
    /\ pc = "run_flux"
    /\ \E r \in SubmitResponses :
        /\ posts' = Append(posts, [url |-> bfl_url(args.variant),
                                   headers |-> headers(args.api_key),
                                   json |-> model_dump(image_request[1])])
        /\ served' = Append(served, r)
        /\ printed' = "Posting job to"
        /\ IF ~is_success(r.status_code)
           THEN /\ pc' = "failed"
                /\ raised' = "HTTPStatusError:post"
                /\ UNCHANGED <<job_id, n>>
           ELSE IF ~AsyncResponseValid(r.json)
           THEN /\ pc' = "failed"
                /\ raised' = "ValidationError:AsyncResponse"
                /\ UNCHANGED <<job_id, n>>
           ELSE /\ pc' = "sleep"
                /\ raised' = "none"
                /\ job_id' = Some(r.json["id"])
                /\ n' = Some(initial_n)
    /\ UNCHANGED <<args, image_request, errors, gets, sleeps, waited,
                   result_response, opened, printed_result, return_value>>

\* top of the loop body: time.sleep(...)
Sleep ==
    /\ pc = "sleep"
    /\ Len(gets) < MaxFetch
    /\ \E jitter \in Jitters : waited' = Some(backoff(n[1], jitter))
    /\ sleeps' = sleeps + 1
    /\ pc' = "fetch"
    /\ UNCHANGED <<args, image_request, errors, posts, gets, served, job_id, n,
                   result_response, opened, raised, printed, printed_result,
                   return_value>>

\* rest of the loop body: the GET, raise_for_status, ResultResponse, match;
\* the response is one of responses
FetchWith(responses) ==
    /\ pc = "fetch"
    /\ \E r \in responses :
        LET o == fetch_outcome(r)
            decoded == is_success(r.status_code) /\ ResultResponseValid(r.json)
        IN
        /\ gets' = Append(gets, [url |-> get_result_url,
                                 headers |-> headers(args.api_key),
                                 params |-> get_params(job_id[1])])
        /\ served' = Append(served, r)
        /\ result_response' =
              IF decoded THEN Some(ResultResponse(r.json)) ELSE result_response
        /\ opened' = opened \o o.open
        /\ raised' = o.raised
        /\ printed' = o.printed
        /\ printed_result' =
              IF decoded THEN printed_payload(ResultResponse(r.json)) ELSE <<>>
        /\ return_value' =
              IF o.next = "return"
              THEN run_flux_returns(ResultResponse(r.json))
              ELSE return_value
        /\ pc' = CASE o.next = "loop" -> "sleep"
                   [] o.next = "return" -> "returned"
                   [] OTHER -> "failed"
        /\ n' = IF o.next = "loop" THEN Some(next_n(n[1])) ELSE n
    /\ UNCHANGED <<args, image_request, errors, posts, job_id, sleeps, waited>>

\* the loop body against a server that may answer anything
Fetch == FetchWith(FetchResponses)

InitRest ==
    /\ pc = "main"
    /\ image_request = None
    /\ errors = {}
    /\ posts = <<>>
    /\ gets = <<>>
    /\ served = <<>>
    /\ job_id = None
    /\ n = None
    /\ sleeps = 0
    /\ waited = None
    /\ result_response = None
    /\ opened = <<>>
    /\ raised = "none"
    /\ printed = ""
    /\ printed_result = <<>>
    /\ return_value = "unset"

Init == args \in RunArgs /\ InitRest

Next == Main \/ Post \/ Sleep \/ Fetch

Spec == Init /\ [][Next]_vars

\* the validation of ImageRequest alone, over the probed keyword arguments
InitValidation == args \in ProbeArgs /\ InitRest

NextValidation == Main

SpecValidation == InitValidation /\ [][NextValidation]_vars

\* a response that answers a fetch with 200 and status Pending
PendingAnswer(r) ==
    /\ r.status_code = 200
    /\ "status" \in DOMAIN r.json
    /\ r.json["status"] = "Pending"

\* the answers of a server that has stopped answering Pending by the time
\* polling is cut
AnsweredResponses ==
    IF Len(gets) + 1 < MaxFetch
    THEN FetchResponses
    ELSE {r \in FetchResponses : ~PendingAnswer(r)}

\* the loop body against that server
FetchAnswered == FetchWith(AnsweredResponses)

NextLive == Main \/ Post \/ Sleep \/ FetchAnswered

\* the run against a server that eventually answers something else than
\* Pending; the process is the only one and blocks on nothing but the server
\* and the sleep, so it takes a step whenever it has one
SpecLive == Init /\ [][NextLive]_vars /\ WF_vars(NextLive)

----------------------------------------------------------------------------
(* Properties *)

\* the statuses after which polling stops
TerminalStatuses ==
    {"Ready", "Error", "Request Moderated", "Content Moderated", "Task not found"}

\* the last response received
res == served[Len(served)]

\* C1: when the status decoded by a fetch is Pending the loop goes back to
\* its top, where the only step is a sleep and after it the only step is a
\* fetch; once the status decoded is Ready, Error, Request Moderated, Content
\* Moderated or Task not found, no further GET get_result is issued.
C1_PendingLoopsTerminalStops ==
    [][/\ (/\ gets' # gets
           /\ raised' = "none"
           /\ result_response'[1].status = "Pending") => pc' = "sleep"
       /\ pc = "sleep" => (pc' = "fetch" /\ sleeps' = sleeps + 1 /\ gets' = gets)
       /\ pc = "fetch" => (Len(gets') = Len(gets) + 1 /\ sleeps' = sleeps)
       /\ (/\ result_response # None
           /\ result_response[1].status \in TerminalStatuses)
              => (gets' = gets /\ sleeps' = sleeps)]_vars

\* C1 witness: a second fetch followed a Pending one, and the run ended on
\* the terminal status it decoded
C1_Witness ==
    /\ pc = "returned"
    /\ Len(gets) = 2
    /\ served[2].json["status"] = "Pending"
    /\ result_response[1].status = "Content Moderated"

\* the mock server's responses to a fetch
PendingWithoutResult(j) == [id |-> j, status |-> "Pending"]
ReadyWithSample(j, u) ==
    [id |-> j, status |-> "Ready", result |-> Some([sample |-> Some(u)])]

\* the responses received so far are what the mock server of job j and URL u
\* sends: {"id": j}, then Pending responses without result, then Ready
MockServerSoFar(j, u) ==
    /\ served # <<>>
    /\ served[1] = [status_code |-> 200, json |-> [id |-> j]]
    /\ \A i \in 2 .. Len(served) :
        /\ served[i].status_code = 200
        /\ \/ served[i].json = PendingWithoutResult(j)
           \/ i = Len(served) /\ served[i].json = ReadyWithSample(j, u)

\* C2: against the mock server ({"id": j}, then k times {"id": j, "status":
\* "Pending"}, then Ready with sample u) the run raises nothing, sleeps before
\* every fetch, and once Ready is served has issued k+1 fetches and returned
\* after handing u to the browser.
C2_MockServerRun ==
    \A j \in JobIds, u \in Urls :
        MockServerSoFar(j, u) =>
            /\ raised = "none"
            /\ sleeps >= Len(gets)
            /\ pc = "fetch" => sleeps = Len(gets) + 1
            /\ (Len(served) >= 2 /\ res.json = ReadyWithSample(j, u)) =>
                  /\ pc = "returned"
                  /\ Len(gets) = Len(served) - 1
                  /\ sleeps >= 1
                  /\ opened = <<u>>

\* C3: a POST answered with a status code outside 200..299 ends the run with
\* the HTTP error of the submit, whatever the body: no sleep, no GET and no
\* browser open happen.
C3_SubmitHttpError ==
    (served # <<>> /\ served[1].status_code \notin 200 .. 299) =>
        /\ pc = "failed"
        /\ raised = "HTTPStatusError:post"
        /\ Len(posts) = 1
        /\ sleeps = 0
        /\ gets = <<>>
        /\ opened = <<>>
        /\ job_id = None

\* C3 witness: the POST was answered 302 with a body that holds an id
C3_Witness ==
    /\ pc = "failed"
    /\ raised = "HTTPStatusError:post"
    /\ served = <<[status_code |-> 302, json |-> [id |-> "abc"]]>>

\* the statuses the claims enumerate
EnumeratedStatuses ==
    {"Pending", "Ready", "Error", "Request Moderated", "Content Moderated",
     "Task not found"}

\* response i answers a fetch with 200 and an object that has id, status and
\* result, the status being none of the enumerated ones
UnrecognizedStatusAt(i) ==
    /\ i \in 2 .. Len(served)
    /\ served[i].status_code = 200
    /\ DOMAIN served[i].json = {"id", "status", "result"}
    /\ served[i].json["status"] \notin EnumeratedStatuses

\* C4: a fetch response whose status string is none of the six enumerated
\* values ends the run with the "Unknown status" error of the match statement,
\* with no further fetch and no URL opened.
C4_UnknownStatusError ==
    \A i \in 2 .. Len(served) :
        UnrecognizedStatusAt(i) =>
            /\ i = Len(served)
            /\ Len(gets) = i - 1
            /\ pc = "failed"
            /\ raised = "ValueError:Unknown status"
            /\ opened = <<>>

\* what the code does on such a response: the run fails at once, with the
\* error of constructing ResultResponse, and case _ is never taken
UnknownStatusFailsInDecoding ==
    /\ raised # "ValueError:Unknown status"
    /\ \A i \in 2 .. Len(served) :
        UnrecognizedStatusAt(i) =>
            /\ i = Len(served)
            /\ Len(gets) = i - 1
            /\ pc = "failed"
            /\ raised = "ValidationError:ResultResponse"
            /\ opened = <<>>

\* C5: when the first fetch is answered 200 with status "Task not found" the
\* run returns after that one fetch: nothing is raised and no URL is opened.
C5_TaskNotFoundFirst ==
    (/\ Len(served) >= 2
     /\ served[2].status_code = 200
     /\ "status" \in DOMAIN served[2].json
     /\ served[2].json["status"] = "Task not found") =>
        /\ pc = "returned"
        /\ raised = "none"
        /\ Len(gets) = 1
        /\ opened = <<>>

\* the same with the result key present in the response
TaskNotFoundFirstWithResultKey ==
    (/\ Len(served) >= 2
     /\ served[2].status_code = 200
     /\ DOMAIN served[2].json = {"id", "status", "result"}
     /\ served[2].json["status"] = "Task not found") =>
        /\ pc = "returned"
        /\ raised = "none"
        /\ Len(gets) = 1
        /\ opened = <<>>

\* the mock server of C2 with "result": null added to its Pending responses
MockServerWithNullResult ==
    \A j \in JobIds, u \in Urls :
        (/\ served # <<>>
         /\ served[1] = [status_code |-> 200, json |-> [id |-> j]]
         /\ \A i \in 2 .. Len(served) :
             /\ served[i].status_code = 200
             /\ \/ served[i].json = [id |-> j, status |-> "Pending", result |-> None]
                \/ i = Len(served) /\ served[i].json = ReadyWithSample(j, u)) =>
            /\ raised = "none"
            /\ sleeps >= Len(gets)
            /\ (Len(served) >= 2 /\ res.json = ReadyWithSample(j, u)) =>
                  /\ pc = "returned"
                  /\ Len(gets) = Len(served) - 1
                  /\ opened = <<u>>

\* the values validation is documented to accept
Lattice == {256 + 32 * k : k \in 0 .. 37}

\* some argument of the command line violates its bound
ViolatesBound(a) ==
    \/ a.width \notin Lattice
    \/ a.height \notin Lattice
    \/ a.seed # None /\ a.seed[1] < 0
    \/ a.guidance # None /\ (a.guidance[1] < 150 \/ a.guidance[1] > 500)
    \/ a.safety_tolerance # None /\ a.safety_tolerance[1] \notin 0 .. 6
    \/ a.interval # None /\ a.interval[1] \notin 1 .. 4

\* C6: a run whose width, height, seed, guidance, safety_tolerance or interval
\* violates its bound never issues an HTTP request: the construction of
\* ImageRequest fails and neither the POST nor a GET happens.
C6_BoundsBeforeNetwork ==
    ViolatesBound(args) =>
        /\ posts = <<>>
        /\ gets = <<>>
        /\ served = <<>>
        /\ pc \in {"main", "failed"}
        /\ pc = "failed" => (raised = "ValidationError:ImageRequest" /\ image_request = None)

\* C6 witness: only the seed is out of bounds and the run has failed in main
C6_Witness ==
    /\ pc = "failed"
    /\ args.seed = Some(-1)
    /\ errors = {"seed"}
    /\ raised = "ValidationError:ImageRequest"

\* C7: once ImageRequest has been constructed, width and height are accepted
\* exactly when they are in {256, 288, ..., 1440}, and a guidance,
\* safety_tolerance or interval that is given is accepted exactly when it is in
\* [1.5, 5.0], [0, 6] and [1, 4]; the construction succeeds exactly when every
\* field is accepted.
C7_ValidationAcceptsExactlyInBounds ==
    pc # "main" =>
        /\ "width" \notin errors <=> args.width \in Lattice
        /\ "height" \notin errors <=> args.height \in Lattice
        /\ args.guidance # None =>
              ("guidance" \notin errors <=>
                  (args.guidance[1] >= 150 /\ args.guidance[1] <= 500))
        /\ args.safety_tolerance # None =>
              ("safety_tolerance" \notin errors <=> args.safety_tolerance[1] \in 0 .. 6)
        /\ args.interval # None =>
              ("interval" \notin errors <=> args.interval[1] \in 1 .. 4)
        /\ pc = "run_flux" <=> errors = {}
        /\ pc = "failed" <=> errors # {}

\* C7 witness: a width inside [256, 1440] that is no multiple of 32 was rejected
C7_Witness ==
    /\ pc = "failed"
    /\ args.width = 1424
    /\ errors = {"width"}

\* the command line leaves prompt, width and height at their defaults
DefaultFields ==
    /\ args.prompt = "ein fantastisches bild"
    /\ args.width = 1024
    /\ args.height = 1024

\* the value of the ImageVariant member chosen on the command line
ExternalString ==
    CASE args.variant = "dev" -> "flux-dev"
      [] args.variant = "pro" -> "flux-pro"
      [] args.variant = "proplus" -> "flux-pro-1.1"

ReadyDecoded == result_response # None /\ result_response[1].status = "Ready"

\* the result decoded is null or a dict without the key sample
ResultNullOrNoSampleKey ==
    \/ result_response[1].result = None
    \/ "sample" \notin DOMAIN result_response[1].result[1]

\* the run failed on one of the two asserts of case Ready, opening nothing
MissingFieldFailure ==
    /\ pc = "failed"
    /\ raised \in {"AssertionError:result", "AssertionError:sample_url"}
    /\ opened = <<>>

\* C9 as claimed: on Ready, a result that is null or has no sample key fails
\* the run with the missing-field error and nothing is opened; otherwise the
\* sample entry is handed to the browser once and the run ends.
C9_ReadyOpensSampleEntry ==
    ReadyDecoded =>
        IF ResultNullOrNoSampleKey
        THEN MissingFieldFailure
        ELSE /\ pc = "returned"
             /\ raised = "none"
             /\ Len(opened) = 1
             /\ Some(opened[1]) = result_response[1].result[1]["sample"]

\* C9 as amended: on Ready, a result that is null, has no sample key or holds
\* null under sample fails the run with the missing-field error and nothing is
\* opened; otherwise the sample URL is handed to the browser once and the run
\* ends.
C9_ReadyOpensNonNullSample ==
    ReadyDecoded =>
        IF \/ ResultNullOrNoSampleKey
           \/ result_response[1].result[1]["sample"] = None
        THEN MissingFieldFailure
        ELSE /\ pc = "returned"
             /\ raised = "none"
             /\ opened = result_response[1].result[1]["sample"]
             /\ Len(opened) = 1

\* C9 witness: after a Pending fetch, Ready came with a sample, which was opened
C9_Witness ==
    /\ pc = "returned"
    /\ Len(gets) = 2
    /\ ReadyDecoded
    /\ opened = <<"http://y/img.png">>

\* C10: n keeps its value from its assignment on, so every wait is
\* 0.5 s * 2^n plus a jitter of at most one second, with n = 1: between 1000
\* and 2000 ms in every iteration.
C10_ConstantBackoff ==
    [][/\ n # None => n' = n
       /\ waited' # None =>
            /\ n' # None
            /\ waited'[1] >= 500 * (2 ^ n'[1])
            /\ waited'[1] <= 500 * (2 ^ n'[1]) + 1000
            /\ waited'[1] \in 1000 .. 2000]_vars

\* C10 witness: the third sleep waited the longest wait there is
C10_Witness ==
    /\ sleeps = 3
    /\ n = Some(1)
    /\ waited = Some(2000)

\* C11: the API key travels in the x-key header of the POST and of every GET
\* and nowhere else: the POST body has no api_key entry, each of its entries is
\* the command-line argument of the same name, and it is the body posted by
\* the run that differs from this one in api_key only.
C11_ApiKeyOnlyInHeader ==
    /\ \A i \in 1 .. Len(posts) :
        /\ DOMAIN posts[i].headers = {"x-key"}
        /\ posts[i].headers["x-key"] = args.api_key
        /\ "api_key" \notin DOMAIN posts[i].json
        /\ \A f \in DOMAIN posts[i].json : posts[i].json[f] = args[f]
        /\ \A k \in ApiKeys :
              posts[i].json = model_dump(ImageRequest([args EXCEPT !.api_key = k]))
    /\ \A i \in 1 .. Len(gets) :
        /\ DOMAIN gets[i].headers = {"x-key"}
        /\ gets[i].headers["x-key"] = args.api_key
        /\ DOMAIN gets[i].params = {"id"}

\* C11 witness: a run with the other API key has posted the body of the
\* default command line and fetched once
C11_Witness ==
    /\ args.api_key = "key2"
    /\ Len(posts) = 1
    /\ Len(gets) = 1
    /\ posts[1].json = model_dump(ImageRequest(DefaultArgs))
    /\ gets[1].headers["x-key"] = "key2"

\* response i answers a fetch with a code outside 200..299
HttpErrorAt(i) == served[i].status_code \notin 200 .. 299

\* response i answers a fetch with a body that is no ResultResponse: id,
\* status or result is missing, or the status is none of the enumerated ones
UndecodableAt(i) ==
    \/ {"id", "status", "result"} \ DOMAIN served[i].json # {}
    \/ served[i].json["status"] \notin EnumeratedStatuses

\* C12: a fetch answered with a non-2xx code or with a body that does not
\* decode into a ResultResponse is the last thing the run does: the run has
\* failed with that error, and no sleep, fetch or browser open follows it,
\* however many Pending responses came before.
C12_PollingErrorNotRetried ==
    \A i \in 2 .. Len(served) :
        (HttpErrorAt(i) \/ UndecodableAt(i)) =>
            /\ i = Len(served)
            /\ Len(gets) = i - 1
            /\ sleeps = i - 1
            /\ pc = "failed"
            /\ raised = IF HttpErrorAt(i)
                        THEN "HTTPStatusError:get"
                        ELSE "ValidationError:ResultResponse"
            /\ opened = <<>>
            /\ return_value = "unset"

\* C12 witness: two Pending responses, then a 500, and the run has failed
C12_Witness ==
    /\ Len(served) = 4
    /\ served[2].json["status"] = "Pending"
    /\ served[3].json["status"] = "Pending"
    /\ served[4].status_code = 500
    /\ pc = "failed"
    /\ raised = "HTTPStatusError:get"

\* the three terminal statuses without payload
ModeratedOrNotFound == {"Request Moderated", "Content Moderated", "Task not found"}

\* run_flux has returned after decoding one of the three
ReturnedWithoutPayload ==
    /\ pc = "returned"
    /\ result_response[1].status \in ModeratedOrNotFound

\* C13 as claimed: after Request Moderated, Content Moderated or Task not
\* found, what run_flux hands to its caller differs from what it hands over
\* for the other two statuses, so the caller can tell which occurred.
C13_CallerCanTellStatus ==
    ReturnedWithoutPayload =>
        \A s \in ModeratedOrNotFound \ {result_response[1].status} :
            run_flux_returns([result_response[1] EXCEPT !.status = s]) # return_value

\* C13 as amended: after Request Moderated, Content Moderated or Task not
\* found, run_flux returns None, as it does on every return, opens nothing and
\* prints no result; only the line printed tells the three apart.
C13_OnlyPrintedLineTellsStatus ==
    /\ pc = "returned" => return_value = "None"
    /\ ReturnedWithoutPayload =>
        /\ raised = "none"
        /\ opened = <<>>
        /\ printed_result = <<>>
        /\ printed =
              CASE result_response[1].status = "Request Moderated" -> "Request moderated ..."
                [] result_response[1].status = "Content Moderated" -> "Content moderated ..."
                [] result_response[1].status = "Task not found" -> "Task not found ..."

\* C13 witness: the run returned None after Task not found on its second fetch
C13_Witness ==
    /\ ReturnedWithoutPayload
    /\ Len(gets) = 2
    /\ result_response[1].status = "Task not found"
    /\ return_value = "None"
    /\ printed = "Task not found ..."

\* every fetch so far was answered 200 with a Pending that decodes
AllPendingSoFar ==
    /\ Len(served) >= 2
    /\ \A i \in 2 .. Len(served) :
        /\ served[i].status_code = 200
        /\ DOMAIN served[i].json = {"id", "status", "result"}
        /\ served[i].json["status"] = "Pending"

\* the run is over
Terminated == pc \in {"returned", "failed"}

\* C14: the loop stops on a status other than Pending or on an error only:
\* while every fetch is answered by a Pending that decodes, the run has not
\* ended and is about to sleep and fetch again (nothing but the cut of the
\* model stops it), and a run that ended after a fetch got something else than
\* such a Pending. Against a server that eventually answers something else,
\* and with the process taking its steps, the run terminates.
C14_StopsOnlyOnTerminalOrError ==
    /\ [](AllPendingSoFar =>
            /\ pc \in {"sleep", "fetch"}
            /\ raised = "none"
            /\ return_value = "unset"
            /\ sleeps >= Len(gets)
            /\ (pc = "sleep" /\ Len(gets) < MaxFetch) => ENABLED Sleep)
    /\ []((Terminated /\ gets # <<>>) => ~AllPendingSoFar)
    /\ <>Terminated

\* C14 witness: two fetches were answered Pending and the loop is at its top
C14_Witness ==
    /\ AllPendingSoFar
    /\ Len(gets) = 2
    /\ pc = "sleep"

\* the sample entry of the result decoded is a URL
HasNonNullSample ==
    /\ result_response[1].result # None
    /\ "sample" \in DOMAIN result_response[1].result[1]
    /\ result_response[1].result[1]["sample"] # None

\* C15: webbrowser.open is called at most once in a run, and only when the
\* fetch that ended the run decoded Ready with a sample that is not null; a run
\* whose fetch decoded Error printed the result as it came, returned at that
\* fetch and opened nothing; nothing is opened while the last status decoded
\* is Pending, Request Moderated, Content Moderated or Task not found.
C15_BrowserOnlyOnReadySample ==
    /\ Len(opened) <= 1
    /\ opened # <<>> =>
        /\ ReadyDecoded
        /\ HasNonNullSample
        /\ opened = result_response[1].result[1]["sample"]
        /\ pc = "returned"
        /\ res.json["status"] = "Ready"
    /\ (result_response # None /\ result_response[1].status = "Error") =>
        /\ pc = "returned"
        /\ raised = "none"
        /\ opened = <<>>
        /\ printed = "Error:"
        /\ printed_result = <<result_response[1].result>>
        /\ res.json = result_response[1]
        /\ Len(gets) = Len(served) - 1
    /\ (result_response # None /\ result_response[1].status # "Ready") => opened = <<>>

\* C15 witness: after a Pending fetch, Error came with a sample in its result;
\* the result was printed and nothing was opened
C15_Witness ==
    /\ pc = "returned"
    /\ Len(gets) = 2
    /\ result_response[1].status = "Error"
    /\ printed_result = <<Some([sample |-> Some("http://x/img.png")])>>
    /\ opened = <<>>

\* C16: every GET carries as id the id of the response to the run's one POST,
\* and job_id keeps that value, whatever ids the fetch responses carry.
C16_FetchUsesSubmitId ==
    /\ Len(posts) <= 1
    /\ job_id # None => job_id[1] = served[1].json["id"]
    /\ \A i \in 1 .. Len(gets) :
        /\ job_id # None
        /\ gets[i].params["id"] = served[1].json["id"]
        /\ gets[i].url.path = "get_result"

\* C16 witness: the second fetch was answered with another id and the third
\* fetch still asked for the submitted one
C16_Witness ==
    /\ Len(gets) = 3
    /\ served[1].json["id"] = "abc"
    /\ served[3].json["id"] = "xyz"
    /\ gets[3].params["id"] = "abc"
    /\ job_id = Some("abc")

====
